---- MODULE Spec2Model ----
(***************************************************************************)
(* Model of the Diario Oficial do Rio scraper: the two scripts new.py and  *)
(* scraper.py.  Each part has its own specification:                       *)
(*   SpecSearch  the boundary searches (find_latest_edition_binary,        *)
(*               get_page_count, descobrir_total_paginas);                 *)
(*   SpecFlaky   the same searches when probes can fail transiently;       *)
(*   SpecRetry   one call of fetch_with_retry;                             *)
(*   SpecPool    the page tasks of one edition under the semaphore;        *)
(*   SpecPoolFair  the same tasks under a fair event loop;                 *)
(*   Spec        a whole run of main() of either script.                   *)
(***************************************************************************)
EXTENDS Integers, Sequences, FiniteSets, TLC

VARIABLES
    \* ---- boundary search ----
    search,       \* which search function runs
    boundary,     \* remote: largest index that exists (below the window: none)
    softTail,     \* remote: indexes above boundary answer 200 text/html, not 404
    low, high,    \* the search window
    last_found,   \* last_found / last / ultima
    spc,          \* position in the search: "precheck", "loop", "done", "idle"
    probed,       \* indexes the loop has evaluated, in order
    answers,      \* what the predicate answered at each of them
    pre,          \* answers of the page-1 checks made before the loop
    flaky,        \* the network is unstable: a probe may exhaust its retries
    sresult,      \* the value returned
    \* ---- fetch_with_retry ----
    method,       \* "GET" or "HEAD"
    attempt,      \* the loop variable of range(RETRIES)
    rstate,       \* "running", "sleeping", "returned", "idle"
    ret,          \* the Python value returned: "None", "True", "bytes"
    requests,     \* session.request calls issued
    delays,       \* asyncio.sleep arguments, in tenths of a second, in order
    outcomes,     \* what each request met, in order
    \* ---- the page tasks of one edition ----
    script,       \* "new" (new.py) or "scraper" (scraper.py)
    total,        \* page count of the edition being fetched
    tpc,          \* per page task: "unused", "start", "waiting", "fetching", "fetched", "done"
    tattempt,     \* per page task: attempt of its fetch_with_retry call
    content,      \* per page task: what its fetch returned ("None" or a body kind)
    result,       \* per page task: "pending", "cached", "retrieved", "failed"
    files,        \* per page: the destination file ("none" or a body kind)
    sem,          \* free permits of the asyncio.Semaphore
    \* ---- a run of main() ----
    rpc,          \* position of main(): "start", "load", "discover", "probe", "guard",
                  \* "count", "fetch", "verdict", "assemble", "cleanup", "returned",
                  \* "finished", "idle"
    halt,         \* "no", or why main() stopped at rpc: "interrupt", "exception"
    fileState,    \* edicoes_baixadas.json: "missing", "corrupt", "valid"
    persisted,    \* the ids edicoes_baixadas.json holds when it is valid
    loaded,       \* what carregar_edicoes_baixadas returned
    edicoes_baixadas, \* the ledger in memory
    latest,       \* latest_id / ultima_edicao (0: none found)
    curr,         \* curr_id / ed: the edition being handled
    count,        \* editions counted as done by new.py's loop
    pending,      \* edicoes_novas still to process
    artifact,     \* per edition, its assembled PDF: "none", "small" (<= 1024 bytes), "large"
    verdict,      \* per edition: "none", "skipped", "empty", "failed", "completed", "raised"
    anyOk,        \* per edition: did a page task report success: "unknown", "zero", "some"
    netTouched,   \* editions for which a request was issued
    tempDirs,     \* editions whose temporary directory was created and not removed
    sucesso,      \* what processar_edicao returned
    handed,       \* the page sequence given to the merge of the edition in hand
    visited       \* the edition ids the selection loop has come to, in order

searchVars == <<search, boundary, softTail, low, high, last_found, spc, probed, answers,
                pre, flaky, sresult>>
retryVars == <<method, attempt, rstate, ret, requests, delays, outcomes>>
poolVars == <<script, total, tpc, tattempt, content, result, files, sem>>
runVars == <<rpc, halt, fileState, persisted, loaded, edicoes_baixadas, latest, curr, count,
             pending, artifact, verdict, anyOk, netTouched, tempDirs, sucesso, handed,
             visited>>
vars == <<searchVars, retryVars, poolVars, runVars>>

(***************************************************************************)
(* Boundary search                                                         *)
(***************************************************************************)
EditionLow == 7500
EditionHigh == 9000
PageLow == 1
PageHigh == 3000

Searches == {"find_latest_edition_binary", "get_page_count", "descobrir_total_paginas"}

WindowLow(s) == IF s = "find_latest_edition_binary" THEN EditionLow ELSE PageLow
WindowHigh(s) == IF s = "find_latest_edition_binary" THEN EditionHigh ELSE PageHigh

\* The remote service on a stable network: HEAD of index x.
HeadStatus(x) == IF x <= boundary \/ softTail THEN 200 ELSE 404
HeadIsPdf(x) == x <= boundary

\* The predicate each loop evaluates at mid.
Exists(s, x) ==
    IF s = "descobrir_total_paginas"
    THEN HeadStatus(x) = 200 /\ HeadIsPdf(x)
    ELSE HeadStatus(x) = 200

\* The page-1 check made before the page searches.
PageOneExists(s) == HeadStatus(1) = 200

\* What a probe can answer when the remote truth is t: on a stable network
\* the truth; on an unstable one a probe of an existing index may also end
\* without a 200 (retries exhausted, timeout, exception), which the caller
\* reads as "does not exist".  Nothing but a 200 makes a probe true.
ProbeAnswersOptimistic(t) == IF flaky THEN BOOLEAN ELSE {t}
ProbeAnswers(t) == IF flaky THEN (IF t THEN BOOLEAN ELSE {FALSE}) ELSE {t}

MidLinear(l, h) == l
Mid(l, h) == (l + h) \div 2

LoopCondStrict(l, h) == l < h
LoopCond(l, h) == l <= h

SearchIdle ==
    /\ search = "none" /\ boundary = 0 /\ softTail = FALSE
    /\ low = 0 /\ high = 0 /\ last_found = 0
    /\ spc = "idle" /\ probed = <<>> /\ answers = <<>> /\ pre = <<>>
    /\ flaky = FALSE /\ sresult = 0

SearchInit ==
    /\ search \in Searches
    /\ boundary \in (WindowLow(search) - 1)..(WindowHigh(search) + 1)
    /\ softTail \in (IF search = "descobrir_total_paginas" THEN BOOLEAN ELSE {FALSE})
    /\ low = WindowLow(search)
    /\ high = WindowHigh(search)
    /\ last_found = 0
    /\ spc = IF search = "find_latest_edition_binary" THEN "loop" ELSE "precheck"
    /\ probed = <<>>
    /\ answers = <<>>
    /\ pre = <<>>
    /\ flaky = FALSE
    /\ sresult = 0

\* Where the page searches go after the page-1 check: into the loop, or
\* straight to "return 0".
AfterPreCheckAlwaysLoop(ans) == "loop"
AfterPreCheck(ans) == IF ans THEN "loop" ELSE "done"

SearchPreCheck ==
    /\ spc = "precheck"
    /\ \E ans \in ProbeAnswers(PageOneExists(search)) :
        /\ pre' = Append(pre, ans)
        /\ spc' = AfterPreCheck(ans)
        /\ sresult' = IF ans THEN sresult ELSE 0
    /\ UNCHANGED <<search, boundary, softTail, low, high, last_found, probed, answers, flaky>>
    /\ UNCHANGED <<retryVars, poolVars, runVars>>

SearchStep ==
    /\ spc = "loop"
    /\ LoopCond(low, high)
    /\ LET mid == Mid(low, high) IN
        \E ans \in ProbeAnswers(Exists(search, mid)) :
            /\ probed' = Append(probed, mid)
            /\ answers' = Append(answers, ans)
            /\ IF ans
               THEN last_found' = mid /\ low' = mid + 1 /\ high' = high
               ELSE high' = mid - 1 /\ low' = low /\ last_found' = last_found
    /\ UNCHANGED <<search, boundary, softTail, spc, pre, flaky, sresult>>
    /\ UNCHANGED <<retryVars, poolVars, runVars>>

SearchReturn ==
    /\ spc = "loop"
    /\ ~LoopCond(low, high)
    /\ sresult' = last_found
    /\ spc' = "done"
    /\ UNCHANGED <<search, boundary, softTail, low, high, last_found, probed, answers,
                   pre, flaky>>
    /\ UNCHANGED <<retryVars, poolVars, runVars>>

SearchNext == SearchPreCheck \/ SearchStep \/ SearchReturn

\* The searches on an unstable network, for a sample of remote boundaries
\* spread over the window: below it, its ends, inner points, above it.
BoundarySamples == 8
SampledBoundaries(s) ==
    {WindowLow(s) - 1, WindowHigh(s) + 1} \cup
    {WindowLow(s) + ((WindowHigh(s) - WindowLow(s)) * i) \div BoundarySamples :
        i \in 0..BoundarySamples}

FlakyInit ==
    /\ search \in Searches
    /\ boundary \in SampledBoundaries(search)
    /\ softTail \in (IF search = "descobrir_total_paginas" THEN BOOLEAN ELSE {FALSE})
    /\ low = WindowLow(search)
    /\ high = WindowHigh(search)
    /\ last_found = 0
    /\ spc = IF search = "find_latest_edition_binary" THEN "loop" ELSE "precheck"
    /\ probed = <<>>
    /\ answers = <<>>
    /\ pre = <<>>
    /\ flaky = TRUE
    /\ sresult = 0

(***************************************************************************)
(* fetch_with_retry                                                        *)
(***************************************************************************)
RETRIES == 3

\* What one session.request can meet.  "exc" is any exception raised inside
\* the try block (timeout, connection error, a body read that fails);
\* "other" is a status that is none of 200, 404, >= 500.
Outcomes == {"ok200", "nf404", "err5xx", "other", "exc"}
Methods == {"GET", "HEAD"}

\* One iteration of the loop body on outcome o.
AttemptStepRetry404(m, o) ==
    [returns |-> o = "ok200",
     value   |-> IF o = "ok200" THEN (IF m = "HEAD" THEN "True" ELSE "bytes") ELSE "None",
     sleeps  |-> o \in {"err5xx", "exc", "nf404"}]
AttemptStep(m, o) ==
    [returns |-> o \in {"ok200", "nf404"},
     value   |-> IF o = "ok200" THEN (IF m = "HEAD" THEN "True" ELSE "bytes") ELSE "None",
     sleeps  |-> o \in {"err5xx", "exc"}]

\* 0.5 * (attempt + 1) seconds, in tenths of a second.
BackoffFlat(a) == 5
Backoff(a) == 5 * (a + 1)

RetryIdle ==
    /\ method = "none" /\ attempt = 0 /\ rstate = "idle" /\ ret = "None"
    /\ requests = 0 /\ delays = <<>> /\ outcomes = <<>>

RetryInit ==
    /\ method \in Methods
    /\ attempt = 0
    /\ rstate = "running"
    /\ ret = "None"
    /\ requests = 0
    /\ delays = <<>>
    /\ outcomes = <<>>

\* The loop moves on to the next value of range(RETRIES), or falls out of it.
NextAttempt ==
    /\ attempt' = attempt + 1
    /\ IF attempt + 1 < RETRIES
       THEN rstate' = "running" /\ ret' = ret
       ELSE rstate' = "returned" /\ ret' = "None"

Attempt(o) ==
    /\ rstate = "running"
    /\ requests' = requests + 1
    /\ outcomes' = Append(outcomes, o)
    /\ LET st == AttemptStep(method, o) IN
        IF st.returns
        THEN rstate' = "returned" /\ ret' = st.value /\ attempt' = attempt
        ELSE IF st.sleeps
        THEN rstate' = "sleeping" /\ ret' = ret /\ attempt' = attempt
        ELSE NextAttempt
    /\ UNCHANGED <<method, delays>>
    /\ UNCHANGED <<searchVars, poolVars, runVars>>

Sleep ==
    /\ rstate = "sleeping"
    /\ delays' = Append(delays, Backoff(attempt))
    /\ NextAttempt
    /\ UNCHANGED <<method, requests, outcomes>>
    /\ UNCHANGED <<searchVars, poolVars, runVars>>

RetryNext == (\E o \in Outcomes : Attempt(o)) \/ Sleep

(***************************************************************************)
(* The page tasks of one edition: download_page / baixar_pagina_pdf        *)
(***************************************************************************)
MaxPages == 3
MAX_CONCURRENT == 2

Scripts == {"new", "scraper"}
Pages == 1..MaxPages

\* A response body, by what the code can tell of it: "pdf" is a well-formed
\* page, "sig" begins with %PDF but cannot be opened as a document, "junk"
\* does not begin with %PDF (an HTML error page, an empty body).
Bodies == {"pdf", "sig", "junk"}
StartsWithPDF(c) == c \in {"pdf", "sig"}

\* The test a task makes on what its fetch returned before it writes it.
Accepts(sc, c) ==
    IF sc = "new" THEN c # "None" /\ StartsWithPDF(c)
    ELSE c # "None"

CanAcquireAlways(s) == TRUE
CanAcquire(s) == s > 0

\* The tasks that are inside "async with sem".
Holders == {p \in Pages : tpc[p] \in {"fetching", "fetched"}}

PoolIdle ==
    /\ script = "none" /\ total = 0
    /\ tpc = [p \in Pages |-> "unused"]
    /\ tattempt = [p \in Pages |-> 0]
    /\ content = [p \in Pages |-> "None"]
    /\ result = [p \in Pages |-> "pending"]
    /\ files = [p \in Pages |-> "none"]
    /\ sem = MAX_CONCURRENT

\* Files left in the edition's directory when its tasks are created: none
\* in new.py (main removes TEMP_DIR first), any in scraper.py (cache_<id>
\* survives a run that stopped before rmtree).  A file of a page above n
\* is one an earlier run wrote when its search counted more pages; what it
\* holds is never read, so one kind stands for all.
LeftOver(sc, n) ==
    IF sc = "new" THEN {[p \in Pages |-> "none"]}
    ELSE {f \in [Pages -> {"none"} \cup Bodies] :
            \A p \in Pages : p > n => f[p] \in {"none", "pdf"}}

PoolInit ==
    /\ script \in Scripts
    /\ total \in 1..MaxPages
    /\ tpc = [p \in Pages |-> IF p <= total THEN "start" ELSE "unused"]
    /\ tattempt = [p \in Pages |-> 0]
    /\ content = [p \in Pages |-> "None"]
    /\ result = [p \in Pages |-> "pending"]
    /\ files \in LeftOver(script, total)
    /\ sem = MAX_CONCURRENT

\* if dest.exists(): return True
TaskStart(p) ==
    /\ tpc[p] = "start"
    /\ IF files[p] # "none"
       THEN /\ tpc' = [tpc EXCEPT ![p] = "done"]
            /\ result' = [result EXCEPT ![p] = "cached"]
       ELSE /\ tpc' = [tpc EXCEPT ![p] = "waiting"]
            /\ result' = result
    /\ UNCHANGED <<script, total, tattempt, content, files, sem>>
    /\ UNCHANGED <<searchVars, retryVars, runVars>>

\* async with sem: (entry)
TaskAcquire(p) ==
    /\ tpc[p] = "waiting"
    /\ CanAcquire(sem)
    /\ sem' = sem - 1
    /\ tpc' = [tpc EXCEPT ![p] = "fetching"]
    /\ UNCHANGED <<script, total, tattempt, content, result, files>>
    /\ UNCHANGED <<searchVars, retryVars, runVars>>

\* One request of the task's fetch: an iteration of fetch_with_retry (with
\* its sleep) in new.py, the single session.get of scraper.py.  b is the
\* body a 200 carries.
TaskAttempt(p, o, b) ==
    /\ tpc[p] = "fetching"
    /\ LET st == AttemptStep("GET", o)
           got == IF o = "ok200" THEN b ELSE "None" IN
        IF script = "scraper" \/ st.returns \/ tattempt[p] + 1 >= RETRIES
        THEN /\ tpc' = [tpc EXCEPT ![p] = "fetched"]
             /\ content' = [content EXCEPT ![p] = got]
             /\ tattempt' = tattempt
        ELSE /\ tattempt' = [tattempt EXCEPT ![p] = @ + 1]
             /\ UNCHANGED <<tpc, content>>
    /\ UNCHANGED <<script, total, result, files, sem>>
    /\ UNCHANGED <<searchVars, retryVars, runVars>>

\* Leaving "async with sem": the permit goes back whether the content was
\* accepted or not.
ReleasedOnSuccess(s, accepted) == IF accepted THEN s + 1 ELSE s
Released(s, accepted) == s + 1

\* The rest of the "async with sem" block: the test of the content, the
\* write of the destination file, the release of the permit, the return.
TaskPersist(p) ==
    /\ tpc[p] = "fetched"
    /\ IF Accepts(script, content[p])
       THEN /\ files' = [files EXCEPT ![p] = content[p]]
            /\ result' = [result EXCEPT ![p] = "retrieved"]
       ELSE /\ files' = files
            /\ result' = [result EXCEPT ![p] = "failed"]
    /\ sem' = Released(sem, Accepts(script, content[p]))
    /\ tpc' = [tpc EXCEPT ![p] = "done"]
    /\ UNCHANGED <<script, total, tattempt, content>>
    /\ UNCHANGED <<searchVars, retryVars, runVars>>

PoolNext ==
    \/ \E p \in Pages : TaskStart(p)
    \/ \E p \in Pages : TaskAcquire(p)
    \/ \E p \in Pages, o \in Outcomes, b \in Bodies : TaskAttempt(p, o, b)
    \/ \E p \in Pages : TaskPersist(p)

(***************************************************************************)
(* A run of main(): new.py (skip by artifact) and scraper.py (skip by      *)
(* ledger).  Edition ids, the target count and the floor are scaled down.  *)
(***************************************************************************)
MaxEdition == 3
RunPages == 2
TARGET == 2
FLOOR == 0
MIN_FIRST == 1
LOOKBACK == 1

Editions == 1..MaxEdition
NoPages == [p \in Pages |-> "none"]
NoContent == [p \in Pages |-> "None"]
NoResult == [p \in Pages |-> "pending"]

RunIdle ==
    /\ rpc = "idle" /\ halt = "no" /\ fileState = "missing" /\ persisted = {} /\ loaded = {}
    /\ edicoes_baixadas = {} /\ latest = 0 /\ curr = 0 /\ count = 0 /\ pending = <<>>
    /\ artifact = [e \in Editions |-> "none"]
    /\ verdict = [e \in Editions |-> "none"]
    /\ anyOk = [e \in Editions |-> "unknown"]
    /\ netTouched = {} /\ tempDirs = {} /\ sucesso = FALSE
    /\ handed = <<>> /\ visited = <<>>

RunInit ==
    /\ script \in Scripts
    /\ rpc = IF script = "new" THEN "start" ELSE "load"
    /\ halt = "no"
    /\ fileState \in (IF script = "new" THEN {"missing"} ELSE {"missing", "corrupt", "valid"})
    /\ persisted \in (IF fileState = "valid" THEN SUBSET Editions ELSE {{}})
    /\ loaded = {} /\ edicoes_baixadas = {}
    /\ latest = 0 /\ curr = 0 /\ count = 0 /\ pending = <<>>
    /\ artifact \in (IF script = "new" THEN [Editions -> {"none", "small", "large"}]
                     ELSE {[e \in Editions |-> "none"]})
    /\ verdict = [e \in Editions |-> "none"]
    /\ anyOk = [e \in Editions |-> "unknown"]
    /\ netTouched = {} /\ tempDirs = {} /\ sucesso = FALSE
    /\ handed = <<>> /\ visited = <<>>
    /\ total = 0
    /\ tpc = [p \in Pages |-> "unused"]
    /\ tattempt = [p \in Pages |-> 0]
    /\ content = NoContent /\ result = NoResult /\ files = NoPages
    /\ sem = MAX_CONCURRENT

\* while count < TARGET and curr_id > 6000
NewLoopOffByOne(c, id) == IF c <= TARGET /\ id > FLOOR THEN "probe" ELSE "finished"
NewLoop(c, id) == IF c < TARGET /\ id > FLOOR THEN "probe" ELSE "finished"

\* new.py main: find_latest_edition_binary returned l, then the loop starts.
\* (netTouched records the requests made while an edition is handled, from
\* the loop on; the probes of the discovery are not counted.)
NewDiscover(l) ==
    /\ script = "new" /\ rpc = "start"
    /\ halt = "no"
    /\ latest' = l
    /\ curr' = l /\ count' = 0
    /\ rpc' = IF l = 0 THEN "finished" ELSE NewLoop(0, l)
    /\ UNCHANGED <<halt, fileState, persisted, loaded, edicoes_baixadas, pending, artifact,
                   verdict, anyOk, netTouched, tempDirs, sucesso>>
    /\ UNCHANGED <<handed, visited>>
    /\ UNCHANGED <<searchVars, retryVars, poolVars>>

\* new.py main: if await check_edition_exists(session, curr_id)
NewProbe(e) ==
    /\ script = "new" /\ rpc = "probe"
    /\ halt = "no"
    /\ netTouched' = netTouched \cup {curr}
    /\ IF e THEN rpc' = "guard" /\ curr' = curr
       ELSE rpc' = NewLoop(count, curr - 1) /\ curr' = curr - 1
    /\ UNCHANGED <<halt, fileState, persisted, loaded, edicoes_baixadas, latest, count, pending,
                   artifact, verdict, anyOk, tempDirs, sucesso>>
    /\ visited' = Append(visited, curr)
    /\ UNCHANGED handed
    /\ UNCHANGED <<searchVars, retryVars, poolVars>>

\* new.py process_edition: if final_pdf.exists() and st_size > 1024: return True
NewGuard ==
    /\ script = "new" /\ rpc = "guard"
    /\ halt = "no"
    /\ IF artifact[curr] = "large"
       THEN /\ verdict' = [verdict EXCEPT ![curr] = "skipped"]
            /\ count' = count + 1 /\ curr' = curr - 1
            /\ rpc' = NewLoop(count + 1, curr - 1)
       ELSE /\ rpc' = "count"
            /\ UNCHANGED <<verdict, count, curr>>
    /\ UNCHANGED <<halt, fileState, persisted, loaded, edicoes_baixadas, latest, pending,
                   artifact, anyOk, netTouched, tempDirs, sucesso>>
    /\ UNCHANGED <<handed, visited>>
    /\ UNCHANGED <<searchVars, retryVars, poolVars>>

\* scraper.py main: edicoes_baixadas = carregar_edicoes_baixadas()
ScraperLoad ==
    /\ script = "scraper" /\ rpc = "load"
    /\ halt = "no"
    /\ IF fileState = "corrupt"
       THEN halt' = "exception" /\ UNCHANGED <<rpc, loaded, edicoes_baixadas>>
       ELSE /\ rpc' = "discover"
            /\ halt' = halt
            /\ loaded' = (IF fileState = "valid" THEN persisted ELSE {})
            /\ edicoes_baixadas' = loaded'
    /\ UNCHANGED <<fileState, persisted, latest, curr, count, pending, artifact, verdict,
                   anyOk, netTouched, tempDirs, sucesso>>
    /\ UNCHANGED <<handed, visited>>
    /\ UNCHANGED <<searchVars, retryVars, poolVars>>

\* range(max(7000, ultima_edicao - 9), ultima_edicao + 1) without the ids
\* of the ledger, ascending.
RECURSIVE Ascending(_, _, _)
Ascending(a, b, skip) ==
    IF a > b THEN <<>>
    ELSE IF a \in skip THEN Ascending(a + 1, b, skip)
    ELSE <<a>> \o Ascending(a + 1, b, skip)
Max(a, b) == IF a >= b THEN a ELSE b
EdicoesNovas(u, done) == Ascending(Max(MIN_FIRST, u - LOOKBACK), u, done)

\* scraper.py main: the landing page gave u (0: None); the new editions are
\* selected and the first is started (makedirs of its cache directory).
ScraperDiscover(u) ==
    /\ script = "scraper" /\ rpc = "discover"
    /\ halt = "no"
    /\ latest' = u
    /\ LET novas == IF u = 0 THEN <<>> ELSE EdicoesNovas(u, edicoes_baixadas) IN
        /\ pending' = novas
        /\ IF novas = <<>>
           THEN rpc' = "finished" /\ UNCHANGED <<curr, tempDirs, visited>>
           ELSE rpc' = "count" /\ curr' = Head(novas)
                /\ tempDirs' = tempDirs \cup {Head(novas)}
                /\ visited' = Append(visited, Head(novas))
    /\ UNCHANGED <<halt, fileState, persisted, loaded, edicoes_baixadas, count, artifact,
                   verdict, anyOk, netTouched, sucesso>>
    /\ UNCHANGED handed
    /\ UNCHANGED <<searchVars, retryVars, poolVars>>

\* get_page_count / descobrir_total_paginas returned n; with n = 0 the
\* processing returns False, else the page tasks are created (new.py makes
\* the temporary directory here).  left: the files already in the directory.
PageCount ==
    /\ rpc = "count"
    /\ halt = "no"
    /\ \E n \in 0..RunPages, left \in [Pages -> {"none"} \cup Bodies] :
        /\ netTouched' = netTouched \cup {curr}
        /\ total' = n
        /\ n <= RunPages
        /\ IF n = 0
           THEN /\ verdict' = [verdict EXCEPT ![curr] = "empty"]
                /\ files' = files
                /\ tempDirs' = tempDirs
                /\ IF script = "new"
                   THEN /\ curr' = curr - 1
                        /\ rpc' = NewLoop(count, curr - 1)
                        /\ sucesso' = sucesso
                   ELSE /\ curr' = curr
                        /\ rpc' = "returned"
                        /\ sucesso' = FALSE
           ELSE /\ left \in LeftOver(script, n)
                /\ files' = left
                /\ tempDirs' = tempDirs \cup {curr}
                /\ rpc' = "fetch"
                /\ UNCHANGED <<verdict, curr, sucesso>>
        /\ UNCHANGED <<halt, fileState, persisted, loaded, edicoes_baixadas, latest, count, pending,
                       artifact, anyOk>>
        /\ UNCHANGED <<script, tpc, tattempt, content, result, sem>>
        /\ UNCHANGED <<handed, visited>>
        /\ UNCHANGED <<searchVars, retryVars>>

\* What a page task ends with, given the file it finds and what its fetch
\* returns (the outcome of TaskStart .. TaskPersist run to completion).
TaskResult(sc, file, c) ==
    IF file # "none" THEN "cached"
    ELSE IF Accepts(sc, c) THEN "retrieved" ELSE "failed"
TaskFile(sc, file, c) ==
    IF file = "none" /\ Accepts(sc, c) THEN c ELSE file

\* The page tasks of the edition all run to completion (as_completed);
\* rets: what each task's fetch returned.
FetchAll ==
    /\ rpc = "fetch"
    /\ halt = "no"
    /\ \E rets \in [Pages -> {"None"} \cup Bodies] :
        /\ \A p \in Pages : (p > total \/ files[p] # "none") => rets[p] = "None"
        /\ result' = [p \in Pages |-> IF p <= total THEN TaskResult(script, files[p], rets[p])
                                      ELSE "pending"]
        /\ files' = [p \in Pages |-> IF p <= total THEN TaskFile(script, files[p], rets[p])
                                     ELSE files[p]]
        /\ anyOk' = [anyOk EXCEPT ![curr] =
                        IF \E p \in 1..total : result'[p] \in {"cached", "retrieved"}
                        THEN "some" ELSE "zero"]
        /\ rpc' = IF script = "new" THEN "verdict" ELSE "assemble"
        /\ UNCHANGED <<halt, fileState, persisted, loaded, edicoes_baixadas, latest, curr, count,
                       pending, artifact, verdict, netTouched, tempDirs, sucesso>>
        /\ UNCHANGED <<script, total, tpc, tattempt, content, sem>>
        /\ UNCHANGED <<handed, visited>>
        /\ UNCHANGED <<searchVars, retryVars>>

\* new.py process_edition: if not any(results): rmtree; return False
NewVerdict ==
    /\ script = "new" /\ rpc = "verdict"
    /\ halt = "no"
    /\ IF \E p \in 1..total : result[p] \in {"cached", "retrieved"}
       THEN /\ rpc' = "assemble"
            /\ UNCHANGED <<verdict, tempDirs, files, result, curr>>
       ELSE /\ verdict' = [verdict EXCEPT ![curr] = "failed"]
            /\ tempDirs' = tempDirs \ {curr}
            /\ files' = NoPages
            /\ result' = NoResult
            /\ curr' = curr - 1
            /\ rpc' = NewLoop(count, curr - 1)
    /\ UNCHANGED <<halt, fileState, persisted, loaded, edicoes_baixadas, latest, count, pending,
                   artifact, anyOk, netTouched, sucesso>>
    /\ UNCHANGED <<script, total, tpc, tattempt, content, sem>>
    /\ UNCHANGED <<handed, visited>>
    /\ UNCHANGED <<searchVars, retryVars>>

\* The page files in the edition's directory, and the orders a listing of
\* the directory can give them in (glob follows no order of its own: the
\* files appear as the tasks completed, or as the file system keeps them).
Present == {p \in Pages : files[p] # "none"}
Range(q) == {q[i] : i \in 1..Len(q)}
Listings(S) == {q \in [1..Cardinality(S) -> S] : Range(q) = S}

\* sorted(..., key=lambda x: int(x.stem))
RECURSIVE InsertByIndex(_, _)
InsertByIndex(x, q) ==
    IF q = <<>> THEN <<x>>
    ELSE IF x <= Head(q) THEN <<x>> \o q
    ELSE <<Head(q)>> \o InsertByIndex(x, Tail(q))
RECURSIVE SortByIndex(_)
SortByIndexMissing(q) == q
SortByIndex(q) == IF q = <<>> THEN <<>> ELSE InsertByIndex(Head(q), SortByIndex(Tail(q)))

\* for p in range(1, total_paginas + 1): if os.path.exists(pag_p)
ExistingUpTo(n) == SelectSeq([p \in 1..n |-> p], LAMBDA p : files[p] # "none")

\* The page sequence the merge works through: new.py sorts the listing of
\* the directory, scraper.py walks 1..total and takes the files that exist.
PagesHanded(sc, listing) ==
    IF sc = "new" THEN SortByIndex(listing) ELSE ExistingUpTo(total)

\* The page files the merge inserts: those that open as documents (the
\* others are skipped by the try/except around fitz.open).
Inserted(q) == {p \in Range(q) : files[p] = "pdf"}

\* fast_merge_pdfs / consolidar_pdfs in the executor.  Document.save of a
\* document with no page raises, and nothing catches it.
Assemble ==
    /\ rpc = "assemble"
    /\ halt = "no"
    /\ \E listing \in Listings(Present) : handed' = PagesHanded(script, listing)
    /\ IF Inserted(handed') = {}
       THEN /\ verdict' = [verdict EXCEPT ![curr] = "raised"]
            /\ halt' = "exception"
            /\ UNCHANGED <<rpc, artifact>>
       ELSE /\ halt' = halt
            /\ artifact' = [artifact EXCEPT ![curr] = "large"]
            /\ rpc' = "cleanup"
            /\ verdict' = verdict
    /\ UNCHANGED <<fileState, persisted, loaded, edicoes_baixadas, latest, curr, count, pending,
                   anyOk, netTouched, tempDirs, sucesso, visited>>
    /\ UNCHANGED poolVars
    /\ UNCHANGED <<searchVars, retryVars>>

\* After the merge: rmtree of the edition's directory and return True.
Cleanup ==
    /\ rpc = "cleanup"
    /\ halt = "no"
    /\ verdict' = [verdict EXCEPT ![curr] = "completed"]
    /\ tempDirs' = tempDirs \ {curr}
    /\ files' = NoPages
    /\ result' = NoResult
    /\ handed' = <<>>
    /\ IF script = "new"
       THEN /\ count' = count + 1 /\ curr' = curr - 1
            /\ rpc' = NewLoop(count + 1, curr - 1)
            /\ sucesso' = sucesso
       ELSE /\ rpc' = "returned" /\ sucesso' = TRUE
            /\ UNCHANGED <<count, curr>>
    /\ UNCHANGED <<halt, fileState, persisted, loaded, edicoes_baixadas, latest, pending,
                   artifact, anyOk, netTouched, visited>>
    /\ UNCHANGED <<script, total, tpc, tattempt, content, sem>>
    /\ UNCHANGED <<searchVars, retryVars>>

ShouldRecordAlways(ok) == TRUE
ShouldRecordInverted(ok) == ~ok
ShouldRecord(ok) == ok

\* scraper.py main: if sucesso: add and salvar_edicoes_baixadas; then the
\* next edition of edicoes_novas is started.  w: the ledger file can be
\* opened for writing; when it cannot, open() raises out of main.
ScraperRecord(w) ==
    /\ script = "scraper" /\ rpc = "returned"
    /\ halt = "no"
    /\ IF ShouldRecord(sucesso) /\ ~w
       THEN /\ edicoes_baixadas' = edicoes_baixadas \cup {curr}
            /\ halt' = "exception"
            /\ UNCHANGED <<persisted, fileState, pending, rpc, curr, tempDirs, visited>>
       ELSE /\ halt' = halt
            /\ IF ShouldRecord(sucesso)
               THEN /\ edicoes_baixadas' = edicoes_baixadas \cup {curr}
                    /\ persisted' = edicoes_baixadas'
                    /\ fileState' = "valid"
               ELSE UNCHANGED <<edicoes_baixadas, persisted, fileState>>
            /\ pending' = Tail(pending)
            /\ IF pending' = <<>>
               THEN rpc' = "finished" /\ UNCHANGED <<curr, tempDirs, visited>>
               ELSE rpc' = "count" /\ curr' = Head(pending')
                    /\ tempDirs' = tempDirs \cup {Head(pending')}
                    /\ visited' = Append(visited, Head(pending'))
    /\ UNCHANGED <<loaded, latest, count, artifact, verdict, anyOk, netTouched, sucesso,
                   handed>>
    /\ UNCHANGED <<searchVars, retryVars, poolVars>>

\* KeyboardInterrupt while main() is running.
Running == halt = "no" /\ rpc \notin {"finished", "idle"}
Interrupt ==
    /\ Running
    /\ halt' = "interrupt"
    /\ UNCHANGED <<rpc, fileState, persisted, loaded, edicoes_baixadas, latest, curr, count,
                   pending, artifact, verdict, anyOk, netTouched, tempDirs, sucesso>>
    /\ UNCHANGED <<handed, visited>>
    /\ UNCHANGED <<searchVars, retryVars, poolVars>>

Next ==
    \/ \E l \in 0..MaxEdition : NewDiscover(l)
    \/ \E e \in BOOLEAN : NewProbe(e)
    \/ NewGuard
    \/ ScraperLoad
    \/ \E u \in 0..MaxEdition : ScraperDiscover(u)
    \/ PageCount
    \/ FetchAll
    \/ NewVerdict
    \/ Assemble
    \/ Cleanup
    \/ \E w \in BOOLEAN : ScraperRecord(w)
    \/ Interrupt

(***************************************************************************)
(* Specifications                                                          *)
(***************************************************************************)
InitSearch == SearchInit /\ RetryIdle /\ PoolIdle /\ RunIdle
InitFlaky == FlakyInit /\ RetryIdle /\ PoolIdle /\ RunIdle
InitRetry == RetryInit /\ SearchIdle /\ PoolIdle /\ RunIdle
InitPool == PoolInit /\ SearchIdle /\ RetryIdle /\ RunIdle
Init == RunInit /\ SearchIdle /\ RetryIdle
SpecSearch == InitSearch /\ [][SearchNext]_vars
SpecFlaky == InitFlaky /\ [][SearchNext]_vars
SpecRetry == InitRetry /\ [][RetryNext]_vars
SpecPool == InitPool /\ [][PoolNext]_vars
\* The event loop runs every task that can run, and every request ends (by
\* an answer or by the timeout): a step that can be taken is taken.
SpecPoolFair == InitPool /\ [][PoolNext]_vars /\ WF_vars(PoolNext)
Spec == Init /\ [][Next]_vars

(***************************************************************************)
(* Claims                                                                  *)
(***************************************************************************)

\* C1: for a monotonic existence predicate (true up to boundary, false
\* above), each search returns the largest index of its window where the
\* predicate is true: boundary itself when it lies in the window, the
\* window's high when the predicate is true everywhere, and 0 when it is
\* false everywhere.
SearchExpected ==
    IF boundary < WindowLow(search) THEN 0
    ELSE IF boundary > WindowHigh(search) THEN WindowHigh(search)
    ELSE boundary
C1_BoundaryExact == spc = "done" => sresult = SearchExpected

C1_Witness ==
    /\ spc = "done"
    /\ search = "descobrir_total_paginas"
    /\ softTail
    /\ boundary > PageLow /\ boundary < PageHigh
    /\ sresult = boundary
    /\ Len(probed) > 1

\* C2: k-1 transient failures (exception or 5xx) then a 200 on attempt k
\* give exactly k requests and the delays 0.5*1, 0.5*2, ... before it,
\* strictly increasing; 5xx on every attempt gives exactly RETRIES requests
\* and the exhausted result None.
Transient == {"err5xx", "exc"}
SuccessOn(k) ==
    /\ Len(outcomes) >= k
    /\ outcomes[k] = "ok200"
    /\ \A i \in 1..(k - 1) : outcomes[i] \in Transient
AlwaysServerError ==
    /\ Len(outcomes) >= RETRIES
    /\ \A i \in 1..RETRIES : outcomes[i] = "err5xx"
C2_AttemptCount ==
    rstate = "returned" =>
        /\ \A k \in 1..RETRIES :
              SuccessOn(k) =>
                  /\ requests = k
                  /\ ret \in {"True", "bytes"}
                  /\ Len(delays) = k - 1
                  /\ \A i \in 1..(k - 1) : delays[i] = 5 * i
                  /\ \A i \in 1..(k - 2) : delays[i] < delays[i + 1]
        /\ AlwaysServerError => requests = RETRIES /\ ret = "None"

C2_Witness ==
    /\ rstate = "returned"
    /\ SuccessOn(RETRIES)
    /\ outcomes[1] = "exc" /\ outcomes[2] = "err5xx"
    /\ requests = RETRIES
    /\ delays = <<5, 10>>

\* C3: a definitive status ends the loop at once.  The attempt that meets
\* 404 or 200 is the last request; the call has returned None for 404 and
\* True (HEAD) or the body (GET) for 200; and the only delays are those of
\* the transient failures before it.
Definitive == {"ok200", "nf404"}
SleepsBefore(i) == Cardinality({j \in 1..(i - 1) : outcomes[j] \in Transient})
C3_DefinitiveEndsLoop ==
    \A i \in 1..Len(outcomes) :
        outcomes[i] \in Definitive =>
            /\ i = Len(outcomes)
            /\ requests = i
            /\ rstate = "returned"
            /\ ret = (IF outcomes[i] = "nf404" THEN "None"
                      ELSE IF method = "HEAD" THEN "True" ELSE "bytes")
            /\ Len(delays) = SleepsBefore(i)

C3_Witness ==
    /\ rstate = "returned"
    /\ Len(outcomes) = 2
    /\ outcomes[1] = "err5xx" /\ outcomes[2] = "nf404"
    /\ requests = 2 /\ Len(delays) = 1
    /\ ret = "None"

\* C4: exhausting every attempt without a 200 or a 404 returns an outcome
\* (Indeterminate) that differs from the one returned on a 404 (Absent).
ReturnedOn404 == AttemptStep("HEAD", "nf404").value
Exhausted ==
    /\ rstate = "returned"
    /\ Len(outcomes) = RETRIES
    /\ \A i \in 1..RETRIES : outcomes[i] \notin Definitive
C4_IndeterminateDistinct == Exhausted => ret # ReturnedOn404

\* C5: at most MAX_CONCURRENT page tasks are between acquiring and
\* releasing the semaphore, in every state of the fetch phase.
C5_BoundedConcurrency == Cardinality(Holders) <= MAX_CONCURRENT

C5_Witness ==
    /\ Cardinality(Holders) = MAX_CONCURRENT
    /\ \E p \in Pages : tpc[p] = "waiting"

\* C6: a task that found no file at its destination writes it only with a
\* body it received and that begins with %PDF; a 200 body that does not
\* begin with %PDF is never written, and that task reports failure.
C6_SignatureGate ==
    \A p \in Pages :
        /\ tpc[p] \in {"waiting", "fetching", "fetched"} => files[p] = "none"
        /\ (tpc[p] = "done" /\ result[p] # "cached") =>
              /\ files[p] # "none" => (files[p] = content[p] /\ StartsWithPDF(content[p]))
              /\ content[p] = "junk" => (files[p] = "none" /\ result[p] = "failed")

\* C7: an edition with at least one page ends Failed (processing returns
\* failure) exactly when none of its page tasks reported a retrieved or
\* cached page, and ends Completed when at least one did.
AfterFetch == {"failed", "completed", "raised"}
C7_EditionVerdict ==
    \A e \in Editions :
        verdict[e] \in AfterFetch =>
            /\ (verdict[e] = "failed") <=> (anyOk[e] = "zero")
            /\ anyOk[e] = "some" => verdict[e] = "completed"

\* C8: an edition that is in the ledger loaded at start, or that was
\* skipped because its artifact already exists with more than 1024 bytes,
\* had no network request issued for it.
C8_SkipNoNetwork ==
    \A e \in Editions :
        (e \in loaded \/ verdict[e] = "skipped") => e \notin netTouched

C10_LoadTolerant ==
    fileState \in {"missing", "corrupt"} =>
        /\ ~(rpc = "load" /\ halt = "exception")
        /\ rpc # "load" => loaded = {}

(***************************************************************************)
(* C14  Empty-edition short-circuit                                        *)
(***************************************************************************)
\* C14: when the check of page 1 made before a page search is not a success
\* (the page is absent, or the probe failed), the search is over at once: it
\* returns 0, that check was its only probe, and no index was evaluated by
\* the loop.
C14_EmptyShortCircuit ==
    (pre # <<>> /\ ~pre[1]) =>
        /\ spc = "done"
        /\ sresult = 0
        /\ pre = <<FALSE>>
        /\ probed = <<>>

\* A page search over an edition that has pages, ended by a failed check.
C14_Witness ==
    /\ search = "get_page_count"
    /\ boundary >= 1
    /\ pre = <<FALSE>>
    /\ spc = "done"

(***************************************************************************)
(* C16  No over-report under instability                                   *)
(***************************************************************************)
TrueAt == {i \in 1..Len(probed) : answers[i]}

\* C16: on an unstable network, with a monotonic remote boundary, a probe is
\* true only at an index the remote answers 200 for (as a PDF, for
\* scraper.py), and a finished search returns 0 or an index one of its own
\* probes was true at, so never more than the true boundary.
C16_NoOverReport ==
    /\ \A i \in TrueAt : Exists(search, probed[i]) /\ HeadStatus(probed[i]) = 200
    /\ \A i \in 1..Len(pre) : pre[i] => PageOneExists(search)
    /\ spc = "done" =>
        \/ sresult = 0
        \/ /\ \E i \in TrueAt : probed[i] = sresult
           /\ sresult <= boundary

\* A search that under-reports: failed probes of existing indexes made it
\* return a positive index below the boundary.
C16_Witness ==
    /\ spc = "done"
    /\ sresult > 0
    /\ sresult < boundary
    /\ \E i \in 1..Len(probed) : ~answers[i] /\ probed[i] <= boundary

(***************************************************************************)
(* C20  Probe budget                                                       *)
(***************************************************************************)
RECURSIVE CeilLog2(_)
CeilLog2(n) == IF n <= 1 THEN 0 ELSE 1 + CeilLog2((n + 1) \div 2)

ProbeBudget(s) == CeilLog2(WindowHigh(s) - WindowLow(s) + 1) + 1

\* C20: whatever the predicate answers (the answers of an unstable network
\* over a remote where every index exists are every possible answer
\* sequence), the loop never evaluates more than ceil(log2(high-low+1))+1
\* indexes, which is at most 12 on 7500..9000 and 13 on 1..3000, and never
\* the same index twice; so it ends.  The page-1 check is not counted.
C20_ProbeBudget ==
    /\ Len(probed) <= ProbeBudget(search)
    /\ ProbeBudget("find_latest_edition_binary") <= 12
    /\ ProbeBudget("get_page_count") <= 13
    /\ ProbeBudget("descobrir_total_paginas") <= 13
    /\ \A i, j \in 1..Len(probed) : i # j => probed[i] # probed[j]
    /\ (spc = "loop" /\ low > high) => ENABLED SearchReturn

\* A finished edition search that took the longest path, with answers that
\* follow no boundary of the remote: some false, some true, every index
\* existing.
C20_Witness ==
    /\ search = "find_latest_edition_binary"
    /\ spc = "done"
    /\ boundary > WindowHigh(search)
    /\ Len(probed) = 11
    /\ \E i, j \in 1..Len(probed) : i < j /\ ~answers[i] /\ answers[j]

(***************************************************************************)
(* C11  Edition isolation                                                  *)
(***************************************************************************)
\* C11: no exception leaves the processing of an edition (its page tasks,
\* its merge) or the recording of its success: main never stops on an
\* exception there, so the editions still selected are attempted.
C11_EditionIsolation ==
    ~(halt = "exception" /\ rpc \in {"count", "fetch", "verdict", "assemble", "cleanup",
                                     "returned"})

(***************************************************************************)
(* C12  Guaranteed cleanup                                                 *)
(***************************************************************************)
\* C12: an edition whose processing ended as completed, failed (no page
\* retrieved) or empty (page count 0) has no temporary directory left.
C12_GuaranteedCleanup ==
    \A e \in Editions :
        verdict[e] \in {"completed", "failed", "empty"} => e \notin tempDirs

(***************************************************************************)
(* C13  Assembly order                                                     *)
(***************************************************************************)
\* The merge has been given its page sequence and the edition's directory
\* has not been removed yet.
HandedOver == rpc = "cleanup" \/ (rpc = "assemble" /\ halt = "exception")
StrictlyAscending(q) == \A i \in 1..(Len(q) - 1) : q[i] < q[i + 1]

\* C13 as stated: in whatever order the page files came to be, the sequence
\* given to the merge is strictly ascending in page index and holds exactly
\* the pages whose files are in the edition's directory.
C13_AssemblyOrder ==
    HandedOver => (StrictlyAscending(handed) /\ Range(handed) = Present)

\* C13 amended: the sequence given to the merge is strictly ascending in
\* page index and holds exactly the pages, among 1..total of this run's
\* page count, whose files are in the edition's directory.
C13_AssemblyOrderUpToCount ==
    HandedOver => (StrictlyAscending(handed) /\ Range(handed) = Present \cap (1..total))

\* new.py has merged an edition of two pages.
C13_Witness ==
    /\ script = "new"
    /\ rpc = "cleanup"
    /\ handed = <<1, 2>>
    /\ files[1] = "pdf" /\ files[2] = "sig"

(***************************************************************************)
(* C15  Selection policy                                                   *)
(***************************************************************************)
StrictlyDescending(q) == \A i \in 1..(Len(q) - 1) : q[i] > q[i + 1]
AboveFloor == \A i \in 1..Len(visited) : visited[i] > FLOOR /\ visited[i] <= latest
Completed == {e \in Editions : verdict[e] = "completed"}

\* At most the target count: new.py counts the editions whose processing
\* returned True (a skip included); scraper.py selects among the newest
\* LOOKBACK + 1 ids those the ledger does not hold.
WithinTarget ==
    /\ Cardinality(Completed) <= TARGET
    /\ script = "new" => count <= TARGET
    /\ script = "scraper" =>
        /\ Len(visited) <= LOOKBACK + 1
        /\ \A i \in 1..Len(visited) :
            visited[i] >= latest - LOOKBACK /\ visited[i] \notin loaded

\* C15 as stated (its safety part): from the newest edition on, the ids
\* are visited in strictly descending order, at most the target count are
\* selected, and none is at or below the floor.
C15_SelectionPolicy ==
    /\ StrictlyDescending(visited)
    /\ AboveFloor
    /\ WithinTarget

\* A measure of what main() has left to do: the editions still ahead, and
\* within an edition the steps still ahead.
PosRank(pos) ==
    CASE pos = "probe" -> 7 [] pos = "guard" -> 6 [] pos = "count" -> 5
      [] pos = "fetch" -> 4 [] pos = "verdict" -> 3 [] pos = "assemble" -> 2
      [] pos = "cleanup" -> 1 [] pos = "returned" -> 0 [] OTHER -> 0
RunRank ==
    IF halt # "no" \/ rpc \in {"finished", "idle"} THEN 0
    ELSE IF rpc = "load" THEN 8 * (MaxEdition + 3)
    ELSE IF rpc \in {"start", "discover"} THEN 8 * (MaxEdition + 2)
    ELSE IF script = "new" THEN 8 * (curr - FLOOR) + PosRank(rpc)
    ELSE 8 * Len(pending) + PosRank(rpc)

\* C15 amended: new.py visits the ids from the newest one in strictly
\* descending order, scraper.py visits its selection in strictly ascending
\* order; both select at most the target count, never come to an id at or
\* below the floor, and every step of main() brings its end nearer, so it
\* terminates whatever the editions' outcomes are.
C15_SelectionPolicyEitherOrder ==
    /\ [](/\ script = "new" =>
               StrictlyDescending(visited) /\ (visited # <<>> => visited[1] = latest)
          /\ script = "scraper" => StrictlyAscending(visited)
          /\ AboveFloor
          /\ WithinTarget
          /\ RunRank >= 0
          /\ Running => RunRank > 0)
    /\ [][RunRank' < RunRank]_vars

\* scraper.py has processed editions 1 then 2, both completed.
C15_Witness ==
    /\ script = "scraper"
    /\ visited = <<1, 2>>
    /\ rpc = "finished"
    /\ Completed = {1, 2}

(***************************************************************************)
(* C18  Ledger flush ordering                                              *)
(***************************************************************************)
\* scraper.py's main is between two editions, or past the last: every
\* position from the start of an edition's processing up to its return,
\* and the end of the run.
BetweenEditions ==
    /\ script = "scraper"
    /\ rpc \in {"count", "fetch", "assemble", "cleanup", "finished"}

\* C18: once the processing of an edition has returned success, its id is
\* in the ledger file before the next edition is begun: whenever main is
\* between editions, the file holds exactly the ids loaded at startup and
\* the ids of the editions completed so far in this run.
C18_LedgerFlushOrdering ==
    BetweenEditions =>
        /\ persisted = loaded \cup Completed
        /\ Completed # {} => fileState = "valid"

\* The second edition is being processed after the first completed and was
\* written to a ledger that held an older id.
C18_Witness ==
    /\ script = "scraper"
    /\ rpc = "fetch"
    /\ curr = 3
    /\ loaded = {1}
    /\ Completed = {2}
    /\ persisted = {1, 2}

(***************************************************************************)
(* C17  Fetch pool liveness                                                *)
(***************************************************************************)
Outcome == {"cached", "retrieved", "failed"}
PoolComplete ==
    /\ \A p \in 1..total : tpc[p] = "done" /\ result[p] \in Outcome
    /\ sem = MAX_CONCURRENT

C19_ResumeWithinEdition ==
    \A p \in 1..total :
        result[p] = "cached" =>
            /\ tpc[p] = "done"
            /\ tattempt[p] = 0 /\ content[p] = "None"
            /\ StartsWithPDF(files[p])

====
